---- MODULE Spec2Model ----
(***************************************************************************)
(* The prospect-agent pipeline of src/agent.py as a state machine: the     *)
(* LangGraph workflow collect -> prioritize -> get_linkedin_data ->        *)
(* analyze (-> tools -> analyze ...), its AgentState (messages, users,     *)
(* config) and the three external ports it calls (Hunter, the LLM,         *)
(* LinkedIn).  One action per graph node; a node's action is the whole     *)
(* node function followed by the graph's routing out of that node.         *)
(***************************************************************************)
EXTENDS Integers, Sequences, FiniteSets, TLC

(* ------------------------------ bounds --------------------------------- *)
\* longest contact list the Hunter port returns
MaxContacts == 2
\* longest user list in the LLM's priority answer
MaxScored == 2
\* number of node executions after which the run is cut off
MaxSteps == 6
\* longest record list handed to the add_users reducer
MaxBatch == 2

(* ------------------------------ values --------------------------------- *)
\* Python's None, for string-valued fields
None == "None"

\* e-mail strings the ports may produce; "A@x" differs from "a@x" by case only
Emails == {"a@x", "A@x", "b@x"}

\* str.lower() on the e-mail strings above
Lower(e) == IF e = "A@x" THEN "a@x" ELSE e

\* '@' in v
HasAt(e) == e \in {"a@x", "A@x", "b@x"}

\* Python truthiness of an optional string (u.get("role"), u.get("linkedin_url"))
Truthy(v) == v \notin {None, ""}

\* priority scores in tenths: 0 is 0.0, 5 is 0.5, 11 is 1.1
ScoreValues == {0, 5, 11}
ScoreMin == 0
ScoreMax == 10

\* ANALYSIS_MODELS.items(), as the sequence of its keys
AnalysisTypes == <<"basic_info">>

\* one element of Hunter's "emails" list: a contact with a position may
\* come with a LinkedIn URL
RawContacts ==
    {c \in [value : Emails, position : {None, "cto"}, linkedin : {None, "url"}] :
        c.position = None => c.linkedin = None}

\* one element of "users" in the LLM's priority answer, before validation
RawPriorityUsers == [email : Emails, score : ScoreValues, reason : {"why"}]

\* sequences over S of length at most n
SeqUpTo(S, n) == UNION {[1..k -> S] : k \in 0..n}

\* elements of a sequence
Range(s) == {s[i] : i \in DOMAIN s}

\* {**u, **upd}
Merge(u, upd) ==
    [k \in (DOMAIN u) \cup (DOMAIN upd) |->
        IF k \in DOMAIN upd THEN upd[k] ELSE u[k]]

\* a message of the event log: its class, tool_call_id (prefix and the
\* e-mail formatted into it), content (text and the number formatted into it)
Message(type, call_id, subject, text, n) ==
    [type |-> type, call_id |-> call_id, subject |-> subject,
     text |-> text, n |-> n]

(* ------------------------------- state --------------------------------- *)
VARIABLES
    messages,      \* AgentState["messages"]
    users,         \* AgentState["users"]
    config,        \* AgentState["config"]
    active,        \* nodes scheduled for the next step of the graph
    status,        \* "running", or "raised" once a node raised out of the run
    trace,         \* nodes executed so far, in order
    hunter_log,    \* outcomes of hunter_tool.invoke, in order
    llm_log,       \* calls of llm.invoke, in order
    linkedin_log,  \* calls of linkedin_tool.invoke, in order
    old_users,     \* reducers.add_users: a record list it is given as old
    new_users,     \* a record list it is given as new
    later_users,   \* a record list merged in after new
    merged,        \* what add_users returned for these lists
    reduced        \* add_users has been applied

pipelineVars == <<messages, users, config, active, status, trace,
                  hunter_log, llm_log, linkedin_log>>
reducerVars == <<old_users, new_users, later_users, merged, reduced>>
vars == <<pipelineVars, reducerVars>>

(* ------------------------------ workflow ------------------------------- *)
END == "__end__"

\* the edges without the one from prioritize to get_linkedin_data
EdgesWithoutEnrichment ==
    { <<"collect", "prioritize">>,
      <<"get_linkedin_data", "analyze">>,
      <<"analyze", "tools">>,
      <<"tools", "analyze">> }

\* workflow.add_edge(...)
Edges ==
    { <<"collect", "prioritize">>,
      <<"prioritize", "get_linkedin_data">>,
      <<"get_linkedin_data", "analyze">>,
      <<"analyze", "tools">>,
      <<"tools", "analyze">> }

\* tools_condition: "tools" when the last message is an AIMessage carrying
\* tool calls; no message of this workflow carries any
ToolsCondition(msgs) == END

\* workflow.add_conditional_edges(...): the branch taken out of node n
Branches(n, us, msgs) ==
    CASE n = "collect" -> {IF us # <<>> THEN "prioritize" ELSE END}
      [] n = "analyze" -> {ToolsCondition(msgs)}
      [] OTHER -> {}

\* nodes scheduled after node n returned: every plain edge out of n and the
\* branch chosen by n's conditional edge, END scheduling nothing
Successors(n, us, msgs) ==
    ({e[2] : e \in {d \in Edges : d[1] = n}} \cup Branches(n, us, msgs)) \ {END}

\* app.invoke({"messages": [], "users": [], "config": SearchConfig(...)})
Init ==
    /\ messages = <<>>
    /\ users = <<>>
    /\ config \in [domain : {"x"}, target_role : {"cto"}, max_results : {1}]
    /\ active = {"collect"}
    /\ status = "running"
    /\ trace = <<>>
    /\ hunter_log = <<>>
    /\ llm_log = <<>>
    /\ linkedin_log = <<>>
    /\ old_users = <<>>
    /\ new_users = <<>>
    /\ later_users = <<>>
    /\ merged = [self |-> <<>>, ab |-> <<>>, ab_c |-> <<>>, bc |-> <<>>, a_bc |-> <<>>]
    /\ reduced = FALSE

\* the run after node n ended with result out: an exception leaving the node
\* function ends the run, a returned state schedules the successors
StatusAfter(out) == IF out.raised THEN "raised" ELSE "running"
ActiveAfter(n, out) ==
    IF out.raised THEN {} ELSE Successors(n, out.users, out.messages)

\* a node may run: it is scheduled and the run is alive
CanRun(n) ==
    /\ status = "running"
    /\ n \in active
    /\ Len(trace) < MaxSteps

(* ------------------------------ collect -------------------------------- *)
\* the record built from one Hunter contact
HunterUser(c) ==
    [email |-> c.value,
     first_name |-> None,
     last_name |-> None,
     role |-> c.position,
     linkedin_url |-> c.linkedin,
     confidence |-> "",
     sources |-> <<"hunter">>]

\* collect_hunter_data on a Hunter answer: reply.raised, or reply.emails
CollectResult(msgs, reply) ==
    IF reply.raised
    THEN [messages |-> Append(msgs,
                Message("ToolMessage", "hunter_error", None, "Feil", 0)),
          users |-> <<>>,
          raised |-> FALSE]
    ELSE LET us == [i \in DOMAIN reply.emails |-> HunterUser(reply.emails[i])]
         IN [messages |-> Append(msgs,
                Message("ToolMessage", "hunter_success", None,
                        "Hentet kontakter", Len(us))),
             users |-> us,
             raised |-> FALSE]

HunterReplies ==
    {[raised |-> TRUE, emails |-> <<>>]}
    \cup [raised : {FALSE}, emails : SeqUpTo(RawContacts, MaxContacts)]

CollectHunterData ==
    /\ CanRun("collect")
    /\ \E reply \in HunterReplies :
         LET out == CollectResult(messages, reply) IN
         /\ messages' = out.messages
         /\ users' = out.users
         /\ hunter_log' = Append(hunter_log, reply)
         /\ active' = ActiveAfter("collect", out)
         /\ status' = StatusAfter(out)
    /\ trace' = Append(trace, "collect")
    /\ UNCHANGED <<config, llm_log, linkedin_log, reducerVars>>

(* ----------------------------- prioritize ------------------------------ *)
\* PriorityUser: score within [0, 1] and an e-mail holding '@'
ValidPriorityUser(p) ==
    /\ HasAt(p.email)
    /\ ScoreMin <= p.score
    /\ p.score <= ScoreMax

\* PriorityAnalysis without validate_users: an empty list is accepted
PriorityAnalysisAcceptsEmpty(reply) ==
    \/ reply.raised
    \/ \E i \in DOMAIN reply.users : ~ValidPriorityUser(reply.users[i])

\* PriorityAnalysis(**json.loads(response.content)) raises: the call itself
\* raised, a user fails PriorityUser's validation, or the list is empty
PriorityAnalysisRaises(reply) ==
    \/ reply.raised
    \/ \E i \in DOMAIN reply.users : ~ValidPriorityUser(reply.users[i])
    \/ reply.users = <<>>

\* validate_email's return value: the e-mail is stored lower-cased
ValidatedEmail(e) == Lower(e)

\* analysis.users: the validated PriorityUser list
ValidatedUsers(reply) ==
    [i \in DOMAIN reply.users |->
        [reply.users[i] EXCEPT !.email = ValidatedEmail(reply.users[i].email)]]

\* next(p for p in analysis.users if p.email == email)
FirstMatch(analysis, email) ==
    analysis[CHOOSE i \in DOMAIN analysis :
                /\ analysis[i].email = email
                /\ \A j \in 1..(i - 1) : analysis[j].email # email]

\* the dict appended to prioritized for a matched user
PrioritizedUser(user, p) ==
    Merge(user, [priority_score |-> p.score,
                 priority_reason |-> p.reason,
                 sources |-> Append(user.sources, "prioritized")])

\* users_with_roles without the test on the role
UsersWithRolesUnfiltered(us) == us

\* users_with_roles
UsersWithRoles(us) == SelectSeq(us, LAMBDA u : Truthy(u.role))

\* the loop "for user in users_with_roles" over a validated analysis
Prioritized(uwr, analysis) ==
    LET emails == {analysis[i].email : i \in DOMAIN analysis}
        F[i \in 0..Len(uwr)] ==
            IF i = 0 THEN <<>>
            ELSE IF uwr[i].email \in emails
                 THEN Append(F[i - 1],
                             PrioritizedUser(uwr[i], FirstMatch(analysis, uwr[i].email)))
                 ELSE F[i - 1]
    IN F[Len(uwr)]

\* prioritize_users with an except branch that forwards no record
PrioritizeResultFailOpen(us, msgs, reply) ==
    IF PriorityAnalysisRaises(reply)
    THEN [messages |-> Append(msgs,
                Message("HumanMessage", None, None, "Feil i prioritering", 0)),
          users |-> <<>>,
          raised |-> FALSE]
    ELSE LET prioritized == Prioritized(UsersWithRoles(us), ValidatedUsers(reply))
         IN [messages |-> Append(msgs,
                Message("AIMessage", None, None, "Prioriterte brukere",
                        Len(prioritized))),
             users |-> prioritized,
             raised |-> FALSE]

\* prioritize_users once the LLM was called and answered reply
PrioritizeResult(us, msgs, reply) ==
    IF PriorityAnalysisRaises(reply)
    THEN [messages |-> Append(msgs,
                Message("HumanMessage", None, None, "Feil i prioritering", 0)),
          users |-> us,
          raised |-> FALSE]
    ELSE LET prioritized == Prioritized(UsersWithRoles(us), ValidatedUsers(reply))
         IN [messages |-> Append(msgs,
                Message("AIMessage", None, None, "Prioriterte brukere",
                        Len(prioritized))),
             users |-> prioritized,
             raised |-> FALSE]

\* prioritize_users when no user has a role: no LLM call
PrioritizeNoRoles(msgs) ==
    [messages |-> Append(msgs,
        Message("HumanMessage", None, None, "Ingen brukere med roller funnet", 0)),
     users |-> <<>>,
     raised |-> FALSE]

PriorityReplies ==
    {[raised |-> TRUE, users |-> <<>>]}
    \cup [raised : {FALSE}, users : SeqUpTo(RawPriorityUsers, MaxScored)]

\* how the priority call ended for the stage
PriorityOutcome(reply) ==
    IF reply.raised THEN "raise"
    ELSE IF \E i \in DOMAIN reply.users : ~ValidPriorityUser(reply.users[i])
         THEN "invalid"
    ELSE IF reply.users = <<>> THEN "empty"
    ELSE "ok"

\* the answer as the stage reads it: for each e-mail of analysis.users, the
\* PriorityUser a lookup by that e-mail finds
PriorityMapping(reply) ==
    IF PriorityAnalysisRaises(reply) THEN {}
    ELSE LET analysis == ValidatedUsers(reply)
         IN {FirstMatch(analysis, analysis[i].email) : i \in DOMAIN analysis}

\* an entry of llm_log: the call's purpose, the user and analysis type it is
\* about, how it ended and, for the priority call, the answer
LLMCall(purpose, subject, kind, outcome, scored) ==
    [purpose |-> purpose, subject |-> subject, kind |-> kind,
     outcome |-> outcome, scored |-> scored]

PrioritizeUsers ==
    /\ CanRun("prioritize")
    /\ IF UsersWithRoles(users) = <<>>
       THEN LET out == PrioritizeNoRoles(messages) IN
            /\ messages' = out.messages
            /\ users' = out.users
            /\ llm_log' = llm_log
            /\ active' = ActiveAfter("prioritize", out)
            /\ status' = StatusAfter(out)
       ELSE \E reply \in PriorityReplies :
            LET out == PrioritizeResult(users, messages, reply) IN
            /\ messages' = out.messages
            /\ users' = out.users
            /\ llm_log' = Append(llm_log,
                    LLMCall("priority", None, None, PriorityOutcome(reply),
                            PriorityMapping(reply)))
            /\ active' = ActiveAfter("prioritize", out)
            /\ status' = StatusAfter(out)
    /\ trace' = Append(trace, "prioritize")
    /\ UNCHANGED <<config, hunter_log, linkedin_log, reducerVars>>

(* -------------------------- get_linkedin_data -------------------------- *)
\* what linkedin_tool.invoke does for one user: "error" when it raises, else
\* the value of linkedin_data["data"]: a profile dict or JSON null
LinkedinOutcomes == {"error", "profile", None}

\* prioritized_users
PrioritizedUsers(us) ==
    SelectSeq(us, LAMBDA u : /\ "prioritized" \in Range(u.sources)
                          /\ Truthy(u.linkedin_url))

\* enriched_user with the sources list overwritten instead of extended
EnrichedUserNewSources(user, data) ==
    Merge(user, [linkedin_raw |-> data, sources |-> <<"linkedin">>])

\* enriched_user
EnrichedUser(user, data) ==
    Merge(user, [linkedin_raw |-> data,
                 sources |-> Append(user.sources, "linkedin")])

\* an entry of linkedin_log
LinkedinCall(user, outcome) ==
    [subject |-> user.email, url |-> user.linkedin_url, outcome |-> outcome,
     user |-> user]

\* the loop with an except branch that also discards what was enriched so far
EnrichLoopResetOnError(pus, outs) ==
    LET F[i \in 0..Len(pus)] ==
            IF i = 0 THEN [enriched |-> <<>>, messages |-> <<>>, calls |-> <<>>]
            ELSE LET prev == F[i - 1]
                     user == pus[i]
                 IN IF outs[i] = "error"
                    THEN [enriched |-> <<>>,
                          messages |-> Append(prev.messages,
                              Message("ToolMessage", "linkedin_error_",
                                      user.email, "Feil", 0)),
                          calls |-> Append(prev.calls, LinkedinCall(user, outs[i]))]
                    ELSE [enriched |-> Append(prev.enriched,
                                              EnrichedUser(user, outs[i])),
                          messages |-> Append(prev.messages,
                              Message("ToolMessage", "linkedin_", user.email,
                                      "Hentet LinkedIn data", 0)),
                          calls |-> Append(prev.calls, LinkedinCall(user, outs[i]))]
    IN F[Len(pus)]

\* the loop "for user in prioritized_users"; outs[i] is the port's outcome for
\* the i-th of them
EnrichLoop(pus, outs) ==
    LET F[i \in 0..Len(pus)] ==
            IF i = 0 THEN [enriched |-> <<>>, messages |-> <<>>, calls |-> <<>>]
            ELSE LET prev == F[i - 1]
                     user == pus[i]
                 IN IF outs[i] = "error"
                    THEN [enriched |-> prev.enriched,
                          messages |-> Append(prev.messages,
                              Message("ToolMessage", "linkedin_error_",
                                      user.email, "Feil", 0)),
                          calls |-> Append(prev.calls, LinkedinCall(user, outs[i]))]
                    ELSE [enriched |-> Append(prev.enriched,
                                              EnrichedUser(user, outs[i])),
                          messages |-> Append(prev.messages,
                              Message("ToolMessage", "linkedin_", user.email,
                                      "Hentet LinkedIn data", 0)),
                          calls |-> Append(prev.calls, LinkedinCall(user, outs[i]))]
    IN F[Len(pus)]

\* Python's "a or b" on two lists
ListOr(a, b) == IF a # <<>> THEN a ELSE b

\* get_linkedin_data returning its local list "messages" in place of
\* state["messages"] + messages
LinkedinResultOwnMessages(us, msgs, outs) ==
    LET pus == PrioritizedUsers(us) IN
    IF pus = <<>>
    THEN [messages |-> Append(msgs,
              Message("HumanMessage", None, None, "Ingen brukere aa berike", 0)),
          users |-> us,
          calls |-> <<>>,
          raised |-> FALSE]
    ELSE LET loop == EnrichLoop(pus, outs)
         IN [messages |-> loop.messages,
             users |-> ListOr(loop.enriched, us),
             calls |-> loop.calls,
             raised |-> FALSE]

\* get_linkedin_data, given the port's outcome for each prioritized user
LinkedinResult(us, msgs, outs) ==
    LET pus == PrioritizedUsers(us) IN
    IF pus = <<>>
    THEN [messages |-> Append(msgs,
              Message("HumanMessage", None, None, "Ingen brukere aa berike", 0)),
          users |-> us,
          calls |-> <<>>,
          raised |-> FALSE]
    ELSE LET loop == EnrichLoop(pus, outs)
         IN [messages |-> msgs \o loop.messages,
             users |-> ListOr(loop.enriched, us),
             calls |-> loop.calls,
             raised |-> FALSE]

GetLinkedinData ==
    /\ CanRun("get_linkedin_data")
    /\ \E outs \in [1..Len(PrioritizedUsers(users)) -> LinkedinOutcomes] :
         LET out == LinkedinResult(users, messages, outs) IN
         /\ messages' = out.messages
         /\ users' = out.users
         /\ linkedin_log' = linkedin_log \o out.calls
         /\ active' = ActiveAfter("get_linkedin_data", out)
         /\ status' = StatusAfter(out)
    /\ trace' = Append(trace, "get_linkedin_data")
    /\ UNCHANGED <<config, hunter_log, llm_log, reducerVars>>

(* --------------------------- analyze_profiles -------------------------- *)
\* users_to_analyze
UsersToAnalyze(us) == SelectSeq(us, LAMBDA u : "linkedin" \in Range(u.sources))

\* {**user, **user["linkedin_raw"]} raises: linkedin_raw is no mapping
ProfileDataRaises(user) == user.linkedin_raw = None

\* analyzed_user with the analysis written over the priority fields
AnalyzedUserRescored(user, ok) ==
    Merge(user, [analysis |-> ok,
                 priority_score |-> 0,
                 priority_reason |-> "analysis",
                 sources |-> Append(user.sources, "analyzed")])

\* analyzed_user; ok is the set of analysis types whose LLM call and
\* validation succeeded, the keys of analysis_results
AnalyzedUser(user, ok) ==
    Merge(user, [analysis |-> ok,
                 sources |-> Append(user.sources, "analyzed")])

\* the llm.invoke calls made for one user, one per analysis type
AnalysisCalls(user, ok) ==
    [i \in DOMAIN AnalysisTypes |->
        LLMCall("analysis", user.email, AnalysisTypes[i],
                IF AnalysisTypes[i] \in ok THEN "ok" ELSE "raise", {})]

\* the loop "for user in users_to_analyze"; oks[i] is the set of analysis
\* types that succeed for the i-th of them
AnalyzeLoop(uta, oks) ==
    LET F[i \in 0..Len(uta)] ==
            IF i = 0 THEN [analyzed |-> <<>>, messages |-> <<>>, calls |-> <<>>]
            ELSE LET prev == F[i - 1]
                     user == uta[i]
                 IN IF ProfileDataRaises(user)
                    THEN [analyzed |-> prev.analyzed,
                          messages |-> Append(prev.messages,
                              Message("ToolMessage", "analyze_error_",
                                      user.email, "Feil", 0)),
                          calls |-> prev.calls]
                    ELSE [analyzed |-> Append(prev.analyzed,
                                              AnalyzedUser(user, oks[i])),
                          messages |-> Append(prev.messages,
                              Message("ToolMessage", "analyze_", user.email,
                                      "Analyserte profil", 0)),
                          calls |-> prev.calls \o AnalysisCalls(user, oks[i])]
    IN F[Len(uta)]

\* analyze_profiles without the try around the LLM call: a failing analysis
\* leaves the function as an exception
AnalyzeResultUnguarded(us, msgs, oks) ==
    LET uta == UsersToAnalyze(us) IN
    IF uta = <<>>
    THEN [messages |-> Append(msgs,
              Message("HumanMessage", None, None, "Ingen profiler aa analysere", 0)),
          users |-> us,
          calls |-> <<>>,
          raised |-> FALSE]
    ELSE LET loop == AnalyzeLoop(uta, oks)
         IN [messages |-> msgs \o loop.messages,
             users |-> ListOr(loop.analyzed, us),
             calls |-> loop.calls,
             raised |-> \E k \in DOMAIN loop.calls : loop.calls[k].outcome = "raise"]

\* analyze_profiles, given the analysis types that succeed for each user
AnalyzeResult(us, msgs, oks) ==
    LET uta == UsersToAnalyze(us) IN
    IF uta = <<>>
    THEN [messages |-> Append(msgs,
              Message("HumanMessage", None, None, "Ingen profiler aa analysere", 0)),
          users |-> us,
          calls |-> <<>>,
          raised |-> FALSE]
    ELSE LET loop == AnalyzeLoop(uta, oks)
         IN [messages |-> msgs \o loop.messages,
             users |-> ListOr(loop.analyzed, us),
             calls |-> loop.calls,
             raised |-> FALSE]

AnalyzeProfiles ==
    /\ CanRun("analyze")
    /\ \E oks \in [1..Len(UsersToAnalyze(users)) -> SUBSET Range(AnalysisTypes)] :
         LET out == AnalyzeResult(users, messages, oks) IN
         /\ messages' = out.messages
         /\ users' = out.users
         /\ llm_log' = llm_log \o out.calls
         /\ active' = ActiveAfter("analyze", out)
         /\ status' = StatusAfter(out)
    /\ trace' = Append(trace, "analyze")
    /\ UNCHANGED <<config, hunter_log, linkedin_log, reducerVars>>

(* -------------------------------- tools -------------------------------- *)
\* the ToolNode behind "tools": it runs the tool calls of the last message.
\* No message of this workflow carries tool calls, so it has nothing to run:
\* it either raises out of the run or returns without an update.
ToolsOutcomes == {"raise", "return"}

ToolsResult(outcome) ==
    IF outcome = "raise"
    THEN [status |-> "raised", active |-> {}]
    ELSE [status |-> "running", active |-> Successors("tools", users, messages)]

Tools ==
    /\ CanRun("tools")
    /\ \E outcome \in ToolsOutcomes :
         /\ status' = ToolsResult(outcome).status
         /\ active' = ToolsResult(outcome).active
    /\ trace' = Append(trace, "tools")
    /\ UNCHANGED <<messages, users, config, hunter_log, llm_log, linkedin_log, reducerVars>>

Next ==
    \/ CollectHunterData
    \/ PrioritizeUsers
    \/ GetLinkedinData
    \/ AnalyzeProfiles
    \/ Tools

Spec == Init /\ [][Next]_vars

(* ------------------------- reducers.add_users -------------------------- *)
\* the fields of UserBase
UserBaseFields ==
    {"email", "first_name", "last_name", "role", "linkedin_url",
     "confidence", "sources"}

\* UserBase(**user).model_dump(): every field of the model, a field the dict
\* lacks at its default (None, an empty list for sources), other keys dropped
UserBaseDump(u) ==
    [f \in UserBaseFields |->
        IF f \in DOMAIN u THEN u[f]
        ELSE IF f = "sources" THEN <<>> ELSE None]

\* the position of the key email in the dict d (a sequence of its values, in
\* insertion order), 0 when the key is absent
KeyIndex(d, email) ==
    IF \E i \in DOMAIN d : d[i].email = email
    THEN CHOOSE i \in DOMAIN d : d[i].email = email
    ELSE 0

\* email_to_user as the dict comprehension over old_users builds it: a
\* repeated key keeps its place and takes the later value
EmailToUser(old) ==
    LET F[i \in 0..Len(old)] ==
            IF i = 0 THEN <<>>
            ELSE LET d == F[i - 1]
                     k == KeyIndex(d, old[i].email)
                 IN IF k # 0
                    THEN [d EXCEPT ![k] = UserBaseDump(old[i])]
                    ELSE Append(d, UserBaseDump(old[i]))
    IN F[Len(old)]

\* add_users without the else branch: a user only in new_users is not added
AddUsersNoInsert(old, new) ==
    LET F[i \in 0..Len(new)] ==
            IF i = 0 THEN EmailToUser(old)
            ELSE LET d == F[i - 1]
                     k == KeyIndex(d, new[i].email)
                 IN IF k # 0
                    THEN [d EXCEPT ![k] = Merge(d[k], UserBaseDump(new[i]))]
                    ELSE d
    IN F[Len(new)]

\* add_users that appends every new user without looking its e-mail up
AddUsersAppend(old, new) ==
    EmailToUser(old) \o [i \in DOMAIN new |-> UserBaseDump(new[i])]

\* add_users(old_users, new_users)
AddUsers(old, new) ==
    LET F[i \in 0..Len(new)] ==
            IF i = 0 THEN EmailToUser(old)
            ELSE LET d == F[i - 1]
                     k == KeyIndex(d, new[i].email)
                 IN IF k # 0
                    THEN [d EXCEPT ![k] = Merge(d[k], UserBaseDump(new[i]))]
                    ELSE Append(d, UserBaseDump(new[i]))
    IN F[Len(new)]

\* a record as a later stage leaves it, every field of UserBase present
FullRecord(email) ==
    [email |-> email, first_name |-> None, last_name |-> None,
     role |-> "cto", linkedin_url |-> "url", confidence |-> "",
     sources |-> <<"hunter", "prioritized">>]

\* a record as a fresh batch brings it, without a role or a profile URL
BareRecord(email) ==
    [email |-> email, role |-> None, sources |-> <<"hunter">>]

\* the records handed to the reducer: one identity in both shapes, a second
\* identity in one
ReducerRecords == {FullRecord("a@x"), BareRecord("a@x"), BareRecord("b@x")}

ReducerInit ==
    /\ messages = <<>>
    /\ users = <<>>
    /\ config = [domain |-> "x", target_role |-> "cto", max_results |-> 1]
    /\ active = {}
    /\ status = "running"
    /\ trace = <<>>
    /\ hunter_log = <<>>
    /\ llm_log = <<>>
    /\ linkedin_log = <<>>
    /\ old_users \in SeqUpTo(ReducerRecords, MaxBatch)
    /\ new_users \in SeqUpTo(ReducerRecords, MaxBatch)
    /\ later_users \in SeqUpTo(ReducerRecords, MaxBatch)
    /\ merged = [self |-> <<>>, ab |-> <<>>, ab_c |-> <<>>, bc |-> <<>>, a_bc |-> <<>>]
    /\ reduced = FALSE

\* the reducer applied to the lists: old with itself, old with new, and the
\* three lists in both groupings
ApplyAddUsers ==
    /\ ~reduced
    /\ merged' = [self |-> AddUsers(old_users, old_users),
                  ab |-> AddUsers(old_users, new_users),
                  ab_c |-> AddUsers(AddUsers(old_users, new_users), later_users),
                  bc |-> AddUsers(new_users, later_users),
                  a_bc |-> AddUsers(old_users, AddUsers(new_users, later_users))]
    /\ reduced' = TRUE
    /\ UNCHANGED <<pipelineVars, old_users, new_users, later_users>>

ReducerNext == ApplyAddUsers

ReducerSpec == ReducerInit /\ [][ReducerNext]_vars

(* -------------------------- api.find_prospects ------------------------- *)
\* analyzed_users of find_prospects: the records of result["users"] the
\* response carries, each named by the record it is serialised from
FindProspectsUsers(us) ==
    SelectSeq(us, LAMBDA u : "linkedin_analyzed" \in Range(u.sources))

(* ------------------------- steps, as seen by claims -------------------- *)
\* the step executes node n
Ran(n) == trace' = Append(trace, n)

\* the messages, LinkedIn calls and LLM calls the step adds
NewMessages == SubSeq(messages', Len(messages) + 1, Len(messages'))
NewLinkedinCalls == SubSeq(linkedin_log', Len(linkedin_log) + 1, Len(linkedin_log'))
NewLLMCalls == SubSeq(llm_log', Len(llm_log) + 1, Len(llm_log'))

\* the node executed last
LastNode == IF trace = <<>> THEN None ELSE trace[Len(trace)]

\* u carries a priority score
HasScore(u) == "priority_score" \in DOMAIN u

(* -------------------------------- claims ------------------------------- *)
\* C1 (as claimed): no record list the pipeline holds, the final one
\* included, has two records with the same e-mail.
C1_IdentityUniqueness ==
    \A i, j \in DOMAIN users : users[i].email = users[j].email => i = j

\* C2: across every node execution, a record whose e-mail is in the list
\* before and after keeps every tag of its sources.
C2_SourcesMonotone ==
    [][\A i \in DOMAIN users : \A j \in DOMAIN users' :
          users[i].email = users'[j].email
          => Range(users[i].sources) \subseteq Range(users'[j].sources)]_vars

\* C2 witness: a record that went through all four stages, with all four tags
C2_Witness ==
    \E i \in DOMAIN users :
        users[i].sources = <<"hunter", "prioritized", "linkedin", "analyzed">>

\* C3: every execution of get_linkedin_data, analyze or tools leaves the
\* priority_score and priority_reason of each scored record as they were.
C3_ScoreImmutable ==
    [][(Ran("get_linkedin_data") \/ Ran("analyze") \/ Ran("tools"))
       => \A i \in DOMAIN users : \A j \in DOMAIN users' :
            (users[i].email = users'[j].email /\ HasScore(users[i]))
            => /\ HasScore(users'[j])
               /\ users'[j].priority_score = users[i].priority_score
               /\ users'[j].priority_reason = users[i].priority_reason]_vars

\* C3 witness: analyze has run twice on a record scored 0.5
C3_Witness ==
    /\ trace = <<"collect", "prioritize", "get_linkedin_data", "analyze",
                 "tools", "analyze">>
    /\ \E i \in DOMAIN users :
          /\ HasScore(users[i])
          /\ users[i].priority_score = 5
          /\ "analyzed" \in Range(users[i].sources)

\* no two records of us share an identity, the lower-cased e-mail
DistinctIdentities(us) ==
    \A i, j \in DOMAIN us : Lower(us[i].email) = Lower(us[j].email) => i = j

\* every scored record of us has a score above 0
PositiveScores(us) ==
    \A i \in DOMAIN us : HasScore(us[i]) => us[i].priority_score > 0

\* a batch on which the stage's eligibility test and the documented one
\* agree and identities are unique
CleanBatch(us) == DistinctIdentities(us) /\ PositiveScores(us)

\* the port call of LinkedinCall c succeeded
CallSucceeded(c) == c.outcome # "error"

\* the record of call c as the stage must leave it on success: the record at
\* stage entry with the payload attached and the stage tag appended
EnrichedAsClaimed(c) ==
    [f \in (DOMAIN c.user) \cup {"linkedin_raw"} |->
        IF f = "linkedin_raw" THEN c.outcome
        ELSE IF f = "sources" THEN c.user.sources \o <<"linkedin">>
        ELSE c.user[f]]

\* m is a failure Event / the success Event of get_linkedin_data for e-mail e
IsFailureEvent(m) == m.text \in {"Feil", "Feil i prioritering"}
IsLinkedinSuccessEvent(m, e) ==
    m.call_id = "linkedin_" /\ m.subject = e /\ ~IsFailureEvent(m)
IsLinkedinFailureEvent(m, e) ==
    m.call_id = "linkedin_error_" /\ m.subject = e /\ IsFailureEvent(m)

\* C4 (as claimed): when get_linkedin_data has one eligible record whose port
\* call succeeds and another whose call fails, the output holds the failed
\* record as it was at stage entry beside the enriched one, and the stage
\* appends one success Event and one failure Event per such record.  Stated
\* for batches of distinct identities with scores above 0.
C4_PartialFailureKeepsRecord ==
    [][(/\ Ran("get_linkedin_data")
        /\ CleanBatch(users)
        /\ \E k \in DOMAIN NewLinkedinCalls : CallSucceeded(NewLinkedinCalls[k])
        /\ \E k \in DOMAIN NewLinkedinCalls : ~CallSucceeded(NewLinkedinCalls[k]))
       => /\ Len(NewMessages) = Len(NewLinkedinCalls)
          /\ \A k \in DOMAIN NewLinkedinCalls :
               LET c == NewLinkedinCalls[k] IN
               IF CallSucceeded(c)
               THEN /\ EnrichedAsClaimed(c) \in Range(users')
                    /\ IsLinkedinSuccessEvent(NewMessages[k], c.subject)
               ELSE /\ c.user \in Range(users')
                    /\ IsLinkedinFailureEvent(NewMessages[k], c.subject)]_vars

\* C5 (as claimed): get_linkedin_data and analyze pass every record that is
\* not eligible for the stage through unchanged, and the e-mails of the
\* output are the e-mails of the input.  Stated for batches of distinct
\* identities with scores above 0.
C5_IneligiblePassThrough ==
    [][/\ (Ran("get_linkedin_data") /\ CleanBatch(users))
          => /\ \A u \in Range(users) \ Range(PrioritizedUsers(users)) :
                   u \in Range(users')
             /\ {u.email : u \in Range(users')} = {u.email : u \in Range(users)}
       /\ (Ran("analyze") /\ CleanBatch(users))
          => /\ \A u \in Range(users) \ Range(UsersToAnalyze(users)) :
                   u \in Range(users')
             /\ {u.email : u \in Range(users')} = {u.email : u \in Range(users)}]_vars

\* C6: in get_linkedin_data, every eligible record whose own port call
\* succeeds leaves the stage enriched (payload attached, tag appended) with
\* its own success Event, whichever other calls of the batch fail.
C6_PerRecordIsolation ==
    [][Ran("get_linkedin_data")
       => \A k \in DOMAIN NewLinkedinCalls :
            LET c == NewLinkedinCalls[k] IN
            CallSucceeded(c)
            => /\ EnrichedAsClaimed(c) \in Range(users')
               /\ IsLinkedinSuccessEvent(NewMessages[k], c.subject)]_vars

\* C6 witness: the stage has run on a batch where the call for one identity
\* failed before and the call for another succeeded
C6_Witness ==
    /\ LastNode = "get_linkedin_data"
    /\ Len(linkedin_log) = 2
    /\ linkedin_log[1].outcome = "error"
    /\ linkedin_log[2].outcome = "profile"
    /\ Lower(linkedin_log[1].subject) # Lower(linkedin_log[2].subject)
    /\ \E i \in DOMAIN users : users[i].email = linkedin_log[2].subject

\* C7 (as claimed): when collect produces no record, because Hunter returned
\* no contact or the call failed, the run ends there: no other node is
\* executed, the record list is empty and the log holds exactly one Event.
C7_EmptyDiscoveryStops ==
    (/\ hunter_log # <<>>
     /\ (hunter_log[1].raised \/ hunter_log[1].emails = <<>>))
    => /\ trace = <<"collect">>
       /\ users = <<>>
       /\ Len(messages) = 1

\* C7 failing run: Hunter returned no contact and prioritize ran all the same
C7_Reached ==
    /\ hunter_log # <<>>
    /\ ~hunter_log[1].raised
    /\ hunter_log[1].emails = <<>>
    /\ "prioritize" \in Range(trace)

\* the priority call of the run raised
PriorityCallRaised ==
    /\ llm_log # <<>>
    /\ llm_log[1].purpose = "priority"
    /\ llm_log[1].outcome = "raise"

\* C8: when the LLM call of prioritize_users raises, the stage returns its
\* input record list, in which no record carries a score or the prioritized
\* tag, and appends exactly one failure Event; and from then on the run
\* makes no LinkedIn call.
C8_ScoringOutageFailsClosed ==
    [][/\ (Ran("prioritize") /\ PriorityCallRaised')
          => /\ users' = users
             /\ \A i \in DOMAIN users' :
                   /\ ~HasScore(users'[i])
                   /\ "prioritized" \notin Range(users'[i].sources)
             /\ Len(NewMessages) = 1
             /\ IsFailureEvent(NewMessages[1])
             /\ Len(NewLLMCalls) = 1
       /\ PriorityCallRaised' => linkedin_log' = <<>>]_vars

\* C8 witness: the priority call raised, a record with a LinkedIn URL was
\* passed on unscored and get_linkedin_data has run on it
C8_Witness ==
    /\ PriorityCallRaised
    /\ "get_linkedin_data" \in Range(trace)
    /\ \E i \in DOMAIN users : Truthy(users[i].linkedin_url)

\* the record u as prioritize_users must forward it for the answer p
ScoredAsClaimed(u, p) ==
    [f \in (DOMAIN u) \cup {"priority_score", "priority_reason"} |->
        IF f = "priority_score" THEN p.score
        ELSE IF f = "priority_reason" THEN p.reason
        ELSE IF f = "sources" THEN u.sources \o <<"prioritized">>
        ELSE u[f]]

\* C9 (as claimed): when the priority call succeeds, prioritize_users
\* forwards exactly the records with a role whose identity (the lower-cased
\* e-mail) is in the answer, each with the answer's score and reason and the
\* prioritized tag appended; the others are dropped.
C9_AttachDropRule ==
    [][(/\ Ran("prioritize")
        /\ Len(NewLLMCalls) = 1
        /\ NewLLMCalls[1].outcome = "ok")
       => LET scored == NewLLMCalls[1].scored
              eligible == Range(UsersWithRoles(users))
          IN /\ \A u \in eligible :
                   (\E p \in scored : p.email = Lower(u.email))
                   <=> (\E j \in DOMAIN users' : users'[j].email = u.email)
             /\ \A j \in DOMAIN users' :
                   \E u \in eligible : \E p \in scored :
                      /\ p.email = Lower(u.email)
                      /\ users'[j] = ScoredAsClaimed(u, p)]_vars

\* some record has a score above 0
SomePositiveScore(us) ==
    \E i \in DOMAIN us : HasScore(us[i]) /\ us[i].priority_score > 0

C11_EnrichmentEligibility ==
    \A k \in DOMAIN linkedin_log :
        LET u == linkedin_log[k].user IN
        /\ "prioritized" \in Range(u.sources)
        /\ Truthy(u.linkedin_url)
        /\ HasScore(u)
        /\ u.priority_score > 0

\* C12 (as claimed): no node is executed twice in a run, and nothing is
\* executed once analyze has completed.
C12_SinglePass ==
    /\ \A i, j \in DOMAIN trace : trace[i] = trace[j] => i = j
    /\ \A i \in DOMAIN trace : trace[i] = "analyze" => i = Len(trace)

\* the step executes one of the four stage functions
RanStage ==
    Ran("collect") \/ Ran("prioritize") \/ Ran("get_linkedin_data") \/ Ran("analyze")

\* C13: whatever the ports do, every execution of a stage function returns a
\* state: the run is not ended by an exception, and the returned log is the
\* input log with at least one Event added.
C13_StagesNeverRaise ==
    [][RanStage
       => /\ status' = "running"
          /\ Len(messages') > Len(messages)
          /\ SubSeq(messages', 1, Len(messages)) = messages]_vars

\* C13 witness: analyze has returned in a run where a LinkedIn call raised
\* and an analysis call raised
C13_Witness ==
    /\ LastNode = "analyze"
    /\ status = "running"
    /\ \E k \in DOMAIN linkedin_log : linkedin_log[k].outcome = "error"
    /\ \E k \in DOMAIN llm_log :
          llm_log[k].purpose = "analysis" /\ llm_log[k].outcome = "raise"

(* --------------------------- reducer claims ---------------------------- *)
\* no two records of us have the same e-mail
UniqueEmails(us) ==
    \A i, j \in DOMAIN us : us[i].email = us[j].email => i = j

\* the value of field f of record u, None when u lacks it
Get(u, f) == IF f \in DOMAIN u THEN u[f] ELSE None

\* u and v have the same field values
SameRecord(u, v) == \A f \in UserBaseFields : Get(u, f) = Get(v, f)

\* the lists xs and ys hold the same records, order ignored
SameRecords(xs, ys) ==
    /\ Len(xs) = Len(ys)
    /\ \A i \in DOMAIN xs : \E j \in DOMAIN ys : SameRecord(xs[i], ys[j])
    /\ \A j \in DOMAIN ys : \E i \in DOMAIN xs : SameRecord(xs[i], ys[j])

C15_MergeAssociative ==
    reduced => SameRecords(merged.ab_c, merged.a_bc)

\* C15 witness: three batches that overlap in an identity, whose fields
\* differ between the batches, were merged in both groupings
C15_Witness ==
    /\ reduced
    /\ \E i \in DOMAIN old_users : \E j \in DOMAIN new_users :
       \E k \in DOMAIN later_users :
          /\ old_users[i].email = new_users[j].email
          /\ new_users[j].email = later_users[k].email
          /\ old_users[i].role # new_users[j].role
          /\ new_users[j].role # later_users[k].role
    /\ Len(merged.ab_c) = 2

\* the record of us with the e-mail email
RecordOf(us, email) == us[KeyIndex(us, email)]

\* the e-mails of the records of us
EmailsOf(us) == {us[i].email : i \in DOMAIN us}

\* old_users and new_users were merged and each names an identity once
MergedCleanLists ==
    reduced /\ UniqueEmails(old_users) /\ UniqueEmails(new_users)

\* C16: for an identity in both old and new, each field (other than sources)
\* of the record add_users produces is new's value when that is not null and
\* old's value otherwise.
C16_FieldOverlay ==
    MergedCleanLists =>
        \A e \in EmailsOf(old_users) \cap EmailsOf(new_users) :
            \A f \in UserBaseFields \ {"sources"} :
                LET o == Get(RecordOf(old_users, e), f)
                    n == Get(RecordOf(new_users, e), f)
                IN RecordOf(merged.ab, e)[f] = IF n # None THEN n ELSE o

\* C17: for an identity in both old and new, the sources of the record
\* add_users produces are the union of old's and new's sources.
C17_SourcesUnion ==
    MergedCleanLists =>
        \A e \in EmailsOf(old_users) \cap EmailsOf(new_users) :
            Range(RecordOf(merged.ab, e).sources)
                = Range(RecordOf(old_users, e).sources)
                  \cup Range(RecordOf(new_users, e).sources)

(* --------------------------- boundary claims --------------------------- *)
\* C18: of the state analyze_profiles returns (distinct identities, positive
\* scores), find_prospects exposes exactly the records that carry the tag
\* analyze_profiles appends.
C18_BoundaryFilter ==
    (LastNode = "analyze" /\ CleanBatch(users))
        => FindProspectsUsers(users)
             = SelectSeq(users, LAMBDA u : "analyzed" \in Range(u.sources))

(* ------------------------- stage-detail claims ------------------------- *)
\* no record of us has a non-empty role
NoRoles(us) == \A i \in DOMAIN us : ~Truthy(us[i].role)

\* C19: when no input record of prioritize_users has a non-empty role, the
\* stage makes no LLM call, returns no records and appends exactly one
\* message, which is not a failure message; in every other case it makes
\* exactly one LLM call, the priority call, however many records have a role.
C19_ScoringShortCircuit ==
    [][Ran("prioritize")
       => IF NoRoles(users)
          THEN /\ NewLLMCalls = <<>>
               /\ users' = <<>>
               /\ Len(NewMessages) = 1
               /\ ~IsFailureEvent(NewMessages[1])
          ELSE /\ Len(NewLLMCalls) = 1
               /\ NewLLMCalls[1].purpose = "priority"]_vars

\* C19 witness: Hunter answered two contacts, neither with a role, and
\* prioritize_users ended the batch without an LLM call
C19_Witness ==
    /\ LastNode = "prioritize"
    /\ Len(hunter_log) = 1
    /\ ~hunter_log[1].raised
    /\ Len(hunter_log[1].emails) = 2
    /\ llm_log = <<>>
    /\ users = <<>>
    /\ Len(messages) = 2

\* m is the success, the failure message of analyze_profiles for e-mail e
IsAnalyzeSuccessEvent(m, e) ==
    m.call_id = "analyze_" /\ m.subject = e /\ ~IsFailureEvent(m)
IsAnalyzeFailureEvent(m, e) ==
    m.call_id = "analyze_error_" /\ m.subject = e /\ IsFailureEvent(m)

\* C20 (as claimed): in the first execution of analyze_profiles on a batch
\* with distinct identities and positive scores, a record whose analysis call
\* raises or fails validation is returned without the tag "analyzed", and
\* the stage appends a failure message and no success message for it.
C20_TagRequiresAnalysis ==
    [][(/\ Ran("analyze")
        /\ "analyze" \notin Range(trace)
        /\ CleanBatch(users))
       => \A k \in DOMAIN NewLLMCalls :
            LET c == NewLLMCalls[k] IN
            (c.purpose = "analysis" /\ c.outcome = "raise")
              => /\ \A i \in DOMAIN users' :
                      users'[i].email = c.subject
                        => "analyzed" \notin Range(users'[i].sources)
                 /\ \E j \in DOMAIN NewMessages :
                      IsAnalyzeFailureEvent(NewMessages[j], c.subject)
                 /\ \A j \in DOMAIN NewMessages :
                      ~IsAnalyzeSuccessEvent(NewMessages[j], c.subject)]_vars

\* C21 (as claimed): after a successful priority call on a batch with
\* distinct identities, prioritize_users forwards no more records than
\* config["max_results"].
C21_ResultCap ==
    [][(/\ Ran("prioritize")
        /\ DistinctIdentities(users)
        /\ Len(NewLLMCalls) = 1
        /\ NewLLMCalls[1].outcome = "ok")
       => Len(users') <= config.max_results]_vars

\* the Hunter answer the step received
NewHunterReply == hunter_log'[Len(hunter_log')]

\* C22 (as claimed): when the Hunter call succeeds, collect_hunter_data
\* returns one record per contact of the answer, in order, whose e-mail is
\* the lower-cased e-mail of the contact and whose sources are exactly
\* ["hunter"].
C22_CollectionMapping ==
    [][(Ran("collect") /\ ~NewHunterReply.raised)
       => LET emails == NewHunterReply.emails IN
          /\ Len(users') = Len(emails)
          /\ \A i \in DOMAIN emails :
                /\ users'[i].email = Lower(emails[i].value)
                /\ users'[i].sources = <<"hunter">>]_vars

\* C23: for every execution of a stage function, the message list of the
\* returned state starts with the message list of the input state: no
\* earlier message is removed, moved or rewritten.
C23_EventLogAppendOnly ==
    [][RanStage
       => /\ Len(messages') >= Len(messages)
          /\ \A i \in DOMAIN messages : messages'[i] = messages[i]]_vars

\* C23 witness: all four stages have run and the log holds their messages
\* in the order of the stages
C23_Witness ==
    /\ trace = <<"collect", "prioritize", "get_linkedin_data", "analyze">>
    /\ Len(messages) = 4
    /\ messages[1].call_id = "hunter_success"
    /\ messages[2].type = "AIMessage"
    /\ messages[3].call_id = "linkedin_"
    /\ messages[4].call_id = "analyze_"

\* C24: when the LLM call of prioritize_users returns an answer with an
\* empty user list, the stage returns all of its input records, those
\* without a role included, none scored or tagged, and appends exactly one
\* message, a failure message.
C24_EmptyAnswerIsFailure ==
    [][(/\ Ran("prioritize")
        /\ Len(NewLLMCalls) = 1
        /\ NewLLMCalls[1].outcome = "empty")
       => /\ users' = users
          /\ \A i \in DOMAIN users' :
                /\ ~HasScore(users'[i])
                /\ "prioritized" \notin Range(users'[i].sources)
          /\ Len(NewMessages) = 1
          /\ IsFailureEvent(NewMessages[1])]_vars

\* C24 witness: the priority call answered an empty list and the stage
\* returned a record with a role and a record without one, both unscored
C24_Witness ==
    /\ LastNode = "prioritize"
    /\ Len(llm_log) = 1
    /\ llm_log[1].outcome = "empty"
    /\ \E i, j \in DOMAIN users :
          /\ Truthy(users[i].role)
          /\ ~Truthy(users[j].role)
          /\ ~HasScore(users[i])
          /\ ~HasScore(users[j])
    /\ IsFailureEvent(messages[Len(messages)])

====
